---- MODULE Spec2Model ----
(***************************************************************************)
(* Model of packages/cli-server-api/src/websocket/eventsSocketServer.ts:   *)
(* the events websocket of the dev server.  It broadcasts every reported   *)
(* Metro event to all connected dev tools and relays their commands to the *)
(* message socket.                                                         *)
(*                                                                         *)
(* Spec is the server: the registry, the connection callbacks and          *)
(* reportEvent, each callback one atomic step (node runs them one at a     *)
(* time on one thread).  BroadcastSpec and RelaySpec are the same server   *)
(* driven through sequences of reportEvent calls and of inbound messages.  *)
(* PureSpec applies the functions of the file (serializeMessage,           *)
(* parseMessage, verifyClient and the relay decision of onmessage) to      *)
(* every input of a bounded domain.                                        *)
(***************************************************************************)
EXTENDS Naturals, Integers, Sequences, FiniteSets, TLC

VARIABLES
    sockets,       \* per connection (clientWs): state of the handshake/handlers, clientId
    clients,       \* the Map clientId -> clientWs, in insertion order
    nextClientId,  \* the counter behind `client#${nextClientId++}`
    sent,          \* per connection: the ws.send calls made on it, in order
    reported,      \* history: the reportEvent calls made so far
    inbound,       \* history: the message events delivered so far
    relayed,       \* history: the messageSocket.broadcast calls made so far
    probeIn,       \* PureSpec: the function under test and its argument
    probeOut       \* PureSpec: its result

vars == <<sockets, clients, nextClientId, sent, reported, inbound, relayed,
          probeIn, probeOut>>

(***************************************************************************)
(* Bounds of the model.                                                    *)
(***************************************************************************)
\* MaxConns: connections.  MaxCalls: reportEvent calls and inbound messages
\* of Spec; MaxSeq: those of BroadcastSpec and RelaySpec.  MaxData: items of
\* the data of a client_log event.
MaxConns == 2
MaxCalls == 1
MaxSeq == 2
MaxData == 2

(***************************************************************************)
(* JavaScript values.  t is the kind of value, s the text of a string or   *)
(* a number.  "array" is the plain array [1,2], "cyclic" an array that     *)
(* holds itself, "Error" an instance of Error, "errorlike" a plain object  *)
(* {message: "boom"} that is no instance of Error.                         *)
(***************************************************************************)
JSV(t, s) == [t |-> t, s |-> s]
Undefined == JSV("undefined", "")
Null == JSV("null", "")
Str(s) == JSV("string", s)
Num(s) == JSV("number", s)
PlainArr == JSV("array", "")
Cyclic == JSV("cyclic", "")
ErrorObj == JSV("Error", "boom")
ErrorLike == JSV("errorlike", "boom")
Fn == JSV("function", "")

Truthy(v) ==
    CASE v.t \in {"undefined", "null"} -> FALSE
      [] v.t = "string" -> v.s # ""
      [] v.t = "number" -> v.s # "0"
      [] OTHER -> TRUE

(***************************************************************************)
(* Events handed to reportEvent.  k = "object": an object with the fields  *)
(* type, error, data and extra (in this key order; a field that is         *)
(* Undefined is missing or undefined, which the code cannot tell apart).   *)
(* data is an array of items (arr) or any other value (val).               *)
(* k = "primitive": val itself is the event (undefined, null, a string).   *)
(***************************************************************************)
NoData == [arr |-> FALSE, val |-> Undefined, items |-> <<>>]
DataVal(v) == [arr |-> FALSE, val |-> v, items |-> <<>>]
DataArr(items) == [arr |-> TRUE, val |-> Undefined, items |-> items]
Obj(type, error, data, extra) ==
    [k |-> "object", val |-> Undefined, type |-> type, error |-> error,
     data |-> data, extra |-> extra]
Prim(v) ==
    [k |-> "primitive", val |-> v, type |-> Undefined, error |-> Undefined,
     data |-> NoData, extra |-> Undefined]

\* `message && ...`: an object is truthy, a primitive by its value
MsgTruthy(m) == m.k = "object" \/ Truthy(m.val)

(***************************************************************************)
(* prettyFormat(value, {escapeString, highlight, maxDepth: 3, min: true}): *)
(* the one-line rendering of a value, a string (the colour codes that      *)
(* highlight adds are left out).  The code never renders a string or an    *)
(* error-like plain object, and none of the renderings below holds a       *)
(* character that JSON escapes.                                            *)
(***************************************************************************)
prettyFormat(v) ==
    CASE v.t = "number" -> v.s
      [] v.t = "undefined" -> "undefined"
      [] v.t = "null" -> "null"
      [] v.t = "array" -> "[1, 2]"
      [] v.t = "cyclic" -> "[[Circular]]"
      [] v.t = "Error" -> "[Error: " \o v.s \o "]"
      [] v.t = "function" -> "[Function anonymous]"

\* mutant of MapItem: the item is handed on as it is, never rendered
MapItemRaw(item) == item

\* lines 87-97: the callback of message.data.map
MapItem(item) == IF item.t = "string" THEN item ELSE Str(prettyFormat(item))

\* mutant of toSerialize: the client_log branch is tried before the error branch
toSerializeClientLogFirst(message) ==
    IF MsgTruthy(message) /\ message.type = Str("client_log")
    THEN IF message.data.arr
         THEN [threw |-> FALSE,
               value |-> [message EXCEPT !.data.items =
                   [i \in DOMAIN message.data.items |->
                       MapItem(message.data.items[i])]]]
         ELSE [threw |-> TRUE, value |-> message]
    ELSE IF MsgTruthy(message) /\ Truthy(message.error) /\ message.error.t = "Error"
    THEN [threw |-> FALSE,
          value |-> [message EXCEPT !.error = Str(prettyFormat(message.error))]]
    ELSE [threw |-> FALSE, value |-> message]

(***************************************************************************)
(* Lines 73-99 of serializeMessage: the value handed to JSON.stringify.    *)
(* threw: message.data.map raised a TypeError (data is no array), which    *)
(* nothing in serializeMessage catches.                                    *)
(***************************************************************************)
toSerialize(message) ==
    IF MsgTruthy(message) /\ Truthy(message.error) /\ message.error.t = "Error"
    THEN [threw |-> FALSE,
          value |-> [message EXCEPT !.error = Str(prettyFormat(message.error))]]
    ELSE IF MsgTruthy(message) /\ message.type = Str("client_log")
    THEN IF message.data.arr
         THEN [threw |-> FALSE,
               value |-> [message EXCEPT !.data.items =
                   [i \in DOMAIN message.data.items |->
                       MapItem(message.data.items[i])]]]
         ELSE [threw |-> TRUE, value |-> message]
    ELSE [threw |-> FALSE, value |-> message]

(***************************************************************************)
(* JSON.stringify.  JsonOf is the JSON value a JavaScript value encodes    *)
(* to: t = "omitted" for a value JSON has no encoding of (undefined, a     *)
(* function), "object" with s = "{}" for an Error (it has no enumerable    *)
(* property).  A cyclic value makes JSON.stringify throw.                  *)
(***************************************************************************)
Omitted == JSV("omitted", "")
JsonOf(v) ==
    CASE v.t \in {"undefined", "function"} -> Omitted
      [] v.t = "Error" -> JSV("object", "{}")
      [] v.t = "errorlike" -> JSV("object", "{\"message\":\"" \o v.s \o "\"}")
      [] v.t = "array" -> JSV("array", "[1,2]")
      [] OTHER -> v

\* an array element JSON cannot encode is written as null
JsonOfItem(v) == IF JsonOf(v) = Omitted THEN Null ELSE JsonOf(v)

Unencodable(v) == v.t = "cyclic"

ThrowsOnEncode(m) ==
    IF m.k = "primitive" THEN Unencodable(m.val)
    ELSE \/ Unencodable(m.type) \/ Unencodable(m.error) \/ Unencodable(m.extra)
         \/ Unencodable(m.data.val)
         \/ \E i \in DOMAIN m.data.items : Unencodable(m.data.items[i])

\* the JSON document of a value that encodes: what a client decodes the text to
JsonDoc(m) ==
    [k |-> m.k, val |-> JsonOf(m.val), type |-> JsonOf(m.type),
     error |-> JsonOf(m.error), extra |-> JsonOf(m.extra),
     data |-> [arr |-> m.data.arr, val |-> JsonOf(m.data.val),
               items |-> [i \in DOMAIN m.data.items |-> JsonOfItem(m.data.items[i])]]]

NoDoc == JsonDoc(Prim(Undefined))

\* the text of a JSON value
Lit(j) == IF j.t = "string" THEN "\"" \o j.s \o "\""
          ELSE IF j.t = "null" THEN "null" ELSE j.s

RECURSIVE Join(_)
Join(parts) ==
    IF parts = <<>> THEN ""
    ELSE IF Len(parts) = 1 THEN parts[1]
    ELSE parts[1] \o "," \o Join(Tail(parts))

Member(key, j) == IF j = Omitted THEN <<>> ELSE <<"\"" \o key \o "\":" \o Lit(j)>>

DataMember(d) ==
    IF d.arr
    THEN <<"\"data\":[" \o Join([i \in DOMAIN d.items |-> Lit(d.items[i])]) \o "]">>
    ELSE Member("data", d.val)

\* the text of a JSON document
Render(doc) ==
    IF doc.k = "primitive" THEN Lit(doc.val)
    ELSE "{" \o Join(Member("type", doc.type) \o Member("error", doc.error)
                     \o DataMember(doc.data) \o Member("extra", doc.extra)) \o "}"

\* JSON.stringify(value): it throws, or returns undefined, or returns a text
JSONstringify(value) ==
    IF ThrowsOnEncode(value) THEN [k |-> "throw", text |-> "", doc |-> NoDoc]
    ELSE IF value.k = "primitive" /\ JsonOf(value.val) = Omitted
    THEN [k |-> "undefined", text |-> "", doc |-> NoDoc]
    ELSE [k |-> "string", text |-> Render(JsonDoc(value)), doc |-> JsonDoc(value)]

(***************************************************************************)
(* serializeMessage (lines 70-106).  k = "throw": the call raised (the     *)
(* rewrite is outside the try); "null": JSON.stringify raised and the      *)
(* catch returned null; "undefined": JSON.stringify returned undefined;    *)
(* "string": the serialized text, with the document it encodes.            *)
(***************************************************************************)
serializeMessage(message) ==
    LET ts == toSerialize(message) IN
    IF ts.threw THEN [k |-> "throw", text |-> "", doc |-> NoDoc]
    ELSE LET r == JSONstringify(ts.value) IN
         IF r.k = "throw" THEN [k |-> "null", text |-> "", doc |-> NoDoc] ELSE r

(***************************************************************************)
(* Inbound text.  wf: the text is well-formed JSON; top: the kind of its   *)
(* top-level value; version, type, command, params: the text of that       *)
(* member of a top-level object ("" when the object has no such key).      *)
(***************************************************************************)
PROTOCOL_VERSION == 2

Raw(wf, top, version, type, command, params) ==
    [wf |-> wf, top |-> top, version |-> version, type |-> type,
     command |-> command, params |-> params]
Garbage == Raw(FALSE, "", "", "", "", "")
RawNull == Raw(TRUE, "null", "", "", "", "")
RawNumber == Raw(TRUE, "number", "", "", "", "")
RawObj(version, type, command, params) == Raw(TRUE, "object", version, type, command, params)

\* JSON.parse of the text of one member
Decode(lit) ==
    CASE lit = "" -> Undefined
      [] lit = "1" -> Num("1")
      [] lit = "2" -> Num("2")
      [] lit = "2.0" -> Num("2")
      [] lit = "\"2\"" -> Str("2")
      [] lit = "null" -> Null
      [] lit = "\"command\"" -> Str("command")
      [] lit = "\"event\"" -> Str("event")
      [] lit = "\"reload\"" -> Str("reload")
      [] lit = "\"devmenu\"" -> Str("devmenu")
      [] lit = "[1,2]" -> PlainArr

Envelope(version, type, command, params) ==
    [version |-> version, type |-> type, command |-> command, params |-> params]
NoEnvelope == Envelope(Undefined, Undefined, Undefined, Undefined)

\* JSON.parse(data) followed by the read of message.version (lines 46-47):
\* threw when the text is no JSON or the value is null (null has no members)
JSONparse(data) ==
    IF ~data.wf \/ data.top = "null" THEN [threw |-> TRUE, message |-> NoEnvelope]
    ELSE IF data.top # "object" THEN [threw |-> FALSE, message |-> NoEnvelope]
    ELSE [threw |-> FALSE,
          message |-> Envelope(Decode(data.version), Decode(data.type),
                               Decode(data.command), Decode(data.params))]

\* message.version === PROTOCOL_VERSION
IsProtocolVersion(v) == v.t = "number" /\ v.s = ToString(PROTOCOL_VERSION)

\* mutant of parseMessage: the version of the message is not looked at
parseMessageAnyVersion(data) ==
    LET p == JSONparse(data) IN
    IF ~p.threw THEN [ok |-> TRUE, message |-> p.message]
    ELSE [ok |-> FALSE, message |-> NoEnvelope]

(***************************************************************************)
(* parseMessage (lines 44-57): ok with the decoded message, or undefined.  *)
(***************************************************************************)
parseMessage(data) ==
    LET p == JSONparse(data) IN
    IF ~p.threw /\ IsProtocolVersion(p.message.version)
    THEN [ok |-> TRUE, message |-> p.message]
    ELSE [ok |-> FALSE, message |-> NoEnvelope]

(***************************************************************************)
(* The Origin header of an upgrade request: absent, or a text, held as the *)
(* sequence of its characters.                                             *)
(***************************************************************************)
NoOrigin == [set |-> FALSE, text |-> <<>>]
Origin(text) == [set |-> TRUE, text |-> text]

\* String.prototype.startsWith
startsWith(text, prefix) ==
    Len(text) >= Len(prefix) /\ SubSeq(text, 1, Len(prefix)) = prefix

HttpLocalhost == <<"h","t","t","p",":","/","/","l","o","c","a","l","h","o","s","t">>
LocalhostPrefix == HttpLocalhost \o <<":">>
FilePrefix == <<"f","i","l","e",":">>

\* mutant of verifyClient: the filter lets every origin through
verifyClientAcceptsAll(origin) == origin.set \/ ~origin.set

\* mutant of verifyClient: the prefix lacks its colon
verifyClientNoColon(origin) ==
    \/ ~origin.set \/ origin.text = <<>>
    \/ startsWith(origin.text, HttpLocalhost)
    \/ startsWith(origin.text, FilePrefix)

(***************************************************************************)
(* verifyClient (lines 125-136).  !origin holds of an absent header and of *)
(* the empty text.                                                         *)
(***************************************************************************)
verifyClient(origin) ==
    \/ ~origin.set \/ origin.text = <<>>
    \/ startsWith(origin.text, LocalhostPrefix)
    \/ startsWith(origin.text, FilePrefix)

(***************************************************************************)
(* The registry: `clients`, a Map.  A Map keeps its entries in insertion   *)
(* order; it is held as the sequence of its entries.                       *)
(***************************************************************************)
Conns == 1..MaxConns

MapHas(map, key) == \E i \in DOMAIN map : map[i].id = key

\* Map.prototype.set: a new key is appended, a known key keeps its place
MapSet(map, key, ws) ==
    IF MapHas(map, key)
    THEN [i \in DOMAIN map |-> IF map[i].id = key THEN [id |-> key, ws |-> ws] ELSE map[i]]
    ELSE Append(map, [id |-> key, ws |-> ws])

\* mutant of MapDelete: splice(indexOf(key), 1) on a list, where the index -1
\* of a key that is not there removes the last entry
MapDeleteSplice(map, key) ==
    IF MapHas(map, key) THEN SelectSeq(map, LAMBDA e : e.id # key)
    ELSE SubSeq(map, 1, Len(map) - 1)

\* Map.prototype.delete: removes the entry of the key, if there is one
MapDelete(map, key) == SelectSeq(map, LAMBDA e : e.id # key)

\* Map.prototype.values, in insertion order
MapValues(map) == [i \in DOMAIN map |-> map[i].ws]

Registered == {clients[i].ws : i \in DOMAIN clients}

\* mutant of ClientIdOf: the id is numbered by the size of the registry
ClientIdOfSize(n) == "client#" \o ToString(Len(clients))

\* `client#${n}` (line 170)
ClientIdOf(n) == "client#" \o ToString(n)

(***************************************************************************)
(* A connection (clientWs).  state: "none" before its upgrade request,     *)
(* "refused", "open", or "closed" once a close or error signal came.       *)
(* since: the number of reportEvent calls that had returned when it was    *)
(* registered.  resignalled: a close or error signal came when the socket  *)
(* was closed already; raised: the handler of such a signal threw.         *)
(***************************************************************************)
NoSocket == [state |-> "none", clientId |-> "", origin |-> NoOrigin, since |-> 0,
             resignalled |-> FALSE, raised |-> FALSE]

\* the events and texts the server is fed (a part of the domain of PureSpec)
Evil == <<"h","t","t","p","s",":","/","/","e","v","i","l",".","e","x","a","m","p","l","e",".","c","o","m">>
Localhost19000 == LocalhostPrefix \o <<"1","9","0","0","0">>
UpgradeOrigins == {NoOrigin, Origin(Evil)}

ReportedEvents ==
    { Obj(Str("foo"), Undefined, NoData, Undefined),
      Obj(Str("client_log"), Undefined, DataArr(<<Str("a"), Num("1")>>), Undefined),
      Obj(Str("client_log"), Undefined, NoData, Undefined),
      Obj(Str("foo"), ErrorObj, NoData, Cyclic) }

WireTexts ==
    { Garbage,
      RawObj("2", "\"command\"", "\"reload\"", ""),
      RawObj("2", "\"command\"", "\"devmenu\"", "[1,2]"),
      RawObj("1", "\"command\"", "\"reload\"", ""),
      RawObj("", "\"command\"", "\"reload\"", ""),
      RawObj("\"2\"", "\"command\"", "\"reload\"", ""),
      RawObj("2", "\"event\"", "\"reload\"", "") }

NoProbe == [fn |-> "none", event |-> Prim(Undefined), data |-> Garbage, origin |-> NoOrigin]
NoResult == [done |-> FALSE, serialized |-> [k |-> "undefined", text |-> "", doc |-> NoDoc],
             parsed |-> [ok |-> FALSE, message |-> NoEnvelope], accepted |-> FALSE,
             calls |-> <<>>]

Init ==
    /\ sockets = [c \in Conns |-> NoSocket]
    /\ clients = <<>>
    /\ nextClientId = 0
    /\ sent = [c \in Conns |-> <<>>]
    /\ reported = <<>>
    /\ inbound = <<>>
    /\ relayed = <<>>
    /\ probeIn = NoProbe
    /\ probeOut = NoResult

\* mutant of Upgrade: the counter of ids is not advanced
UpgradeNoIncrement(c, origin) ==
    /\ sockets[c].state = "none"
    /\ \A d \in Conns : d < c => sockets[d].state # "none"
    /\ IF verifyClient(origin)
       THEN /\ sockets' = [sockets EXCEPT ![c] =
                   [NoSocket EXCEPT !.state = "open", !.origin = origin,
                                    !.since = Len(reported),
                                    !.clientId = ClientIdOf(nextClientId)]]
            /\ nextClientId' = nextClientId
            /\ clients' = MapSet(clients, ClientIdOf(nextClientId), c)
       ELSE /\ sockets' = [sockets EXCEPT ![c] =
                   [NoSocket EXCEPT !.state = "refused", !.origin = origin]]
            /\ UNCHANGED <<nextClientId, clients>>
    /\ UNCHANGED <<sent, reported, inbound, relayed, probeIn, probeOut>>

\* mutant of Upgrade: the last event reported is replayed to the new client
UpgradeReplays(c, origin) ==
    /\ sockets[c].state = "none"
    /\ \A d \in Conns : d < c => sockets[d].state # "none"
    /\ IF verifyClient(origin)
       THEN /\ sockets' = [sockets EXCEPT ![c] =
                   [NoSocket EXCEPT !.state = "open", !.origin = origin,
                                    !.since = Len(reported),
                                    !.clientId = ClientIdOf(nextClientId)]]
            /\ nextClientId' = nextClientId + 1
            /\ clients' = MapSet(clients, ClientIdOf(nextClientId), c)
            /\ sent' = IF reported # <<>>
                            /\ serializeMessage(reported[Len(reported)].event).k = "string"
                       THEN [sent EXCEPT ![c] = Append(@,
                               [ev |-> Len(reported), ok |-> TRUE,
                                text |-> serializeMessage(reported[Len(reported)].event).text])]
                       ELSE sent
       ELSE /\ sockets' = [sockets EXCEPT ![c] =
                   [NoSocket EXCEPT !.state = "refused", !.origin = origin]]
            /\ UNCHANGED <<nextClientId, clients, sent>>
    /\ UNCHANGED <<reported, inbound, relayed, probeIn, probeOut>>

(***************************************************************************)
(* An upgrade request of connection c.  The websocket server calls         *)
(* verifyClient; when it accepts, the 'connection' callback (lines         *)
(* 169-197) runs: it takes the next id, registers the socket and attaches  *)
(* the handlers.  Connections are numbered in the order they ask.          *)
(***************************************************************************)
Upgrade(c, origin) ==
    /\ sockets[c].state = "none"
    /\ \A d \in Conns : d < c => sockets[d].state # "none"
    /\ IF verifyClient(origin)
       THEN /\ sockets' = [sockets EXCEPT ![c] =
                   [NoSocket EXCEPT !.state = "open", !.origin = origin,
                                    !.since = Len(reported),
                                    !.clientId = ClientIdOf(nextClientId)]]
            /\ nextClientId' = nextClientId + 1
            /\ clients' = MapSet(clients, ClientIdOf(nextClientId), c)
       ELSE /\ sockets' = [sockets EXCEPT ![c] =
                   [NoSocket EXCEPT !.state = "refused", !.origin = origin]]
            /\ UNCHANGED <<nextClientId, clients>>
    /\ UNCHANGED <<sent, reported, inbound, relayed, probeIn, probeOut>>

\* mutant of Signal: the entry is left for a later clean-up
SignalDeferred(c) ==
    /\ sockets[c].state \in {"open", "closed"}
    /\ clients' = clients
    /\ sockets' = [sockets EXCEPT ![c].state = "closed",
                                  ![c].resignalled = (sockets[c].state = "closed")]
    /\ UNCHANGED <<nextClientId, sent, reported, inbound, relayed, probeIn, probeOut>>

(***************************************************************************)
(* clientWs.onclose = clientWs.onerror (lines 174-176): one function for   *)
(* both signals.  It stays attached, so the transport may deliver any      *)
(* number of signals, in any order.                                        *)
(***************************************************************************)
Signal(c) ==
    /\ sockets[c].state \in {"open", "closed"}
    /\ clients' = MapDelete(clients, sockets[c].clientId)
    /\ sockets' = [sockets EXCEPT ![c].state = "closed",
                                  ![c].resignalled = (sockets[c].state = "closed")]
    /\ UNCHANGED <<nextClientId, sent, reported, inbound, relayed, probeIn, probeOut>>

OnClose(c) == Signal(c)

\* mutant of OnError: only onclose is wired to the removal
OnErrorUnwired(c) ==
    /\ sockets[c].state \in {"open", "closed"}
    /\ sockets' = [sockets EXCEPT ![c].state = "closed",
                                  ![c].resignalled = (sockets[c].state = "closed")]
    /\ UNCHANGED <<clients, nextClientId, sent, reported, inbound, relayed, probeIn, probeOut>>

OnError(c) == Signal(c)

(***************************************************************************)
(* The loop of broadCastEvent (lines 158-166): ws.send(serialized) on each *)
(* value of the Map in turn.  failing: the sockets whose send raises; the  *)
(* catch is inside the loop, so the loop goes on.  Each call is logged on  *)
(* its socket: ev, the number of the reportEvent call; ok, whether the     *)
(* write went through.                                                     *)
(***************************************************************************)
Write(ev, text, ok) == [ev |-> ev, text |-> text, ok |-> ok]

\* mutant of sendToAll: the try is around the loop, so the first send that
\* raises ends it
RECURSIVE sendToAllStopsAtFailure(_, _, _, _, _)
sendToAllStopsAtFailure(values, serialized, failing, ev, log) ==
    IF values = <<>> THEN log
    ELSE LET ws == Head(values)
             next == [log EXCEPT ![ws] = Append(@, Write(ev, serialized, ws \notin failing))]
         IN  IF ws \in failing THEN next
             ELSE sendToAllStopsAtFailure(Tail(values), serialized, failing, ev, next)

RECURSIVE sendToAll(_, _, _, _, _)
sendToAll(values, serialized, failing, ev, log) ==
    IF values = <<>> THEN log
    ELSE LET ws == Head(values) IN
         sendToAll(Tail(values), serialized, failing, ev,
                   [log EXCEPT ![ws] = Append(@, Write(ev, serialized, ws \notin failing))])

\* mutant of broadCastEvent: an event that encodes to the text of the event
\* reported before it is taken for a repeat and not sent
broadCastEventSkipsRepeat(message, failing) ==
    IF Len(clients) = 0 THEN [threw |-> FALSE, sent |-> sent]
    ELSE LET serialized == serializeMessage(message) IN
         IF serialized.k = "throw" THEN [threw |-> TRUE, sent |-> sent]
         ELSE IF serialized.k # "string" \/ serialized.text = ""
         THEN [threw |-> FALSE, sent |-> sent]
         ELSE IF reported # <<>>
                  /\ serializeMessage(reported[Len(reported)].event).text = serialized.text
         THEN [threw |-> FALSE, sent |-> sent]
         ELSE [threw |-> FALSE,
               sent |-> sendToAll(MapValues(clients), serialized.text, failing,
                                  Len(reported) + 1, sent)]

\* mutant of broadCastEvent: the test of line 155 is missing, so the null of
\* a failed serialization is sent
broadCastEventNoNullCheck(message, failing) ==
    IF Len(clients) = 0 THEN [threw |-> FALSE, sent |-> sent]
    ELSE LET serialized == serializeMessage(message) IN
         IF serialized.k = "throw" THEN [threw |-> TRUE, sent |-> sent]
         ELSE [threw |-> FALSE,
               sent |-> sendToAll(MapValues(clients),
                                  IF serialized.k = "string" THEN serialized.text ELSE "null",
                                  failing, Len(reported) + 1, sent)]

(***************************************************************************)
(* broadCastEvent (lines 150-167): whether it threw, and the sends made.   *)
(***************************************************************************)
broadCastEvent(message, failing) ==
    IF Len(clients) = 0 THEN [threw |-> FALSE, sent |-> sent]
    ELSE LET serialized == serializeMessage(message) IN
         IF serialized.k = "throw" THEN [threw |-> TRUE, sent |-> sent]
         ELSE IF serialized.k # "string" \/ serialized.text = ""
         THEN [threw |-> FALSE, sent |-> sent]
         ELSE [threw |-> FALSE,
               sent |-> sendToAll(MapValues(clients), serialized.text, failing,
                                  Len(reported) + 1, sent)]

\* mutant of ReportEvent: the clients whose write raised are dropped from
\* the registry
ReportEventEvicts(event, failing) ==
    /\ LET r == broadCastEvent(event, failing) IN
       /\ sent' = r.sent
       /\ reported' = Append(reported, [event |-> event, registry |-> Registered,
                                        threw |-> r.threw])
    /\ clients' = SelectSeq(clients, LAMBDA e : e.ws \notin failing)
    /\ UNCHANGED <<sockets, nextClientId, inbound, relayed, probeIn, probeOut>>

(***************************************************************************)
(* reportEvent (lines 200-202), called by the reporter.                    *)
(***************************************************************************)
ReportEvent(event, failing) ==
    /\ LET r == broadCastEvent(event, failing) IN
       /\ sent' = r.sent
       /\ reported' = Append(reported, [event |-> event, registry |-> Registered,
                                        threw |-> r.threw])
    /\ UNCHANGED <<sockets, clients, nextClientId, inbound, relayed, probeIn, probeOut>>

\* mutant of onmessage: the type of the message is not looked at
onmessageAnyType(data) ==
    LET parsed == parseMessage(data) IN
    IF ~parsed.ok THEN <<>>
    ELSE <<[command |-> parsed.message.command, params |-> parsed.message.params]>>

\* mutant of onmessage: the params of the command are not handed on
onmessageDropsParams(data) ==
    LET parsed == parseMessage(data) IN
    IF ~parsed.ok THEN <<>>
    ELSE IF parsed.message.type = Str("command")
    THEN <<[command |-> parsed.message.command, params |-> Undefined]>>
    ELSE <<>>

(***************************************************************************)
(* clientWs.onmessage (lines 178-196): the calls of messageSocket.broadcast*)
(* it makes for a text.  A call that raises is caught (line 190).          *)
(***************************************************************************)
onmessage(data) ==
    LET parsed == parseMessage(data) IN
    IF ~parsed.ok THEN <<>>
    ELSE IF parsed.message.type = Str("command")
    THEN <<[command |-> parsed.message.command, params |-> parsed.message.params]>>
    ELSE <<>>

\* mutant of OnMessage: a text that is not relayed, or whose relay raises,
\* drops the sending connection from the registry
OnMessageDropsSender(c, data, raises) ==
    /\ sockets[c].state \in {"open", "closed"}
    /\ inbound' = Append(inbound, [conn |-> c, data |-> data, threw |-> FALSE,
                                   open |-> sockets[c].state = "open"])
    /\ relayed' = relayed \o
           [i \in DOMAIN onmessage(data) |->
               [msg |-> Len(inbound) + 1, command |-> onmessage(data)[i].command,
                params |-> onmessage(data)[i].params, raised |-> raises]]
    /\ clients' = IF onmessage(data) = <<>> \/ raises
                  THEN MapDelete(clients, sockets[c].clientId)
                  ELSE clients
    /\ UNCHANGED <<sockets, nextClientId, sent, reported, probeIn, probeOut>>

\* A message event of connection c.  The handler is never detached, so the
\* model lets the transport deliver text after a close or error signal too.
\* open: whether the connection was open when the text came.
OnMessage(c, data, raises) ==
    /\ sockets[c].state \in {"open", "closed"}
    /\ inbound' = Append(inbound, [conn |-> c, data |-> data, threw |-> FALSE,
                                   open |-> sockets[c].state = "open"])
    /\ relayed' = relayed \o
           [i \in DOMAIN onmessage(data) |->
               [msg |-> Len(inbound) + 1, command |-> onmessage(data)[i].command,
                params |-> onmessage(data)[i].params, raised |-> raises]]
    /\ UNCHANGED <<sockets, clients, nextClientId, sent, reported, probeIn, probeOut>>

\* the reportEvent calls and message events so far
Calls == Len(reported) + Len(inbound)

Next ==
    \/ \E c \in Conns, origin \in UpgradeOrigins : Upgrade(c, origin)
    \/ \E c \in Conns : OnClose(c)
    \/ \E c \in Conns : OnError(c)
    \/ /\ Calls < MaxCalls
       /\ \E event \in ReportedEvents, failing \in SUBSET Registered : ReportEvent(event, failing)
    \/ /\ Calls < MaxCalls
       /\ \E c \in Conns, data \in WireTexts, raises \in BOOLEAN : OnMessage(c, data, raises)

Spec == Init /\ [][Next]_vars

(***************************************************************************)
(* Sequences of MaxSeq calls, so that a later event or a later command     *)
(* follows an earlier one.  Every upgrade comes without an Origin header.  *)
(* BroadcastSpec drives reportEvent with the events of Spec; each          *)
(* connection signals close or error once (Spec covers the repeated        *)
(* signals).  RelaySpec                                                    *)
(* drives the message handler with one text of each kind it tells apart,   *)
(* next to a plain event whose writes all succeed.                         *)
(***************************************************************************)
SeqTexts ==
    { Garbage,
      RawObj("1", "\"command\"", "\"reload\"", ""),
      RawObj("2", "\"event\"", "\"reload\"", ""),
      RawObj("2", "\"command\"", "\"reload\"", "") }

BroadcastNext ==
    \/ \E c \in Conns : Upgrade(c, NoOrigin)
    \/ \E c \in Conns : sockets[c].state = "open" /\ OnClose(c)
    \/ \E c \in Conns : sockets[c].state = "open" /\ OnError(c)
    \/ /\ Calls < MaxSeq
       /\ \E event \in ReportedEvents, failing \in SUBSET Registered : ReportEvent(event, failing)

BroadcastSpec == Init /\ [][BroadcastNext]_vars

RelayNext ==
    \/ \E c \in Conns : Upgrade(c, NoOrigin)
    \/ \E c \in Conns : OnClose(c)
    \/ \E c \in Conns : OnError(c)
    \/ /\ Calls < MaxSeq
       /\ ReportEvent(Obj(Str("foo"), Undefined, NoData, Undefined), {})
    \/ /\ Calls < MaxSeq
       /\ \E c \in Conns, data \in SeqTexts, raises \in BOOLEAN : OnMessage(c, data, raises)

RelaySpec == Init /\ [][RelayNext]_vars

(***************************************************************************)
(* PureSpec: the pure functions of the file, each applied to every input   *)
(* of its domain.                                                          *)
(***************************************************************************)
TypeValues == {Undefined, Str("foo"), Str("client_log")}
ErrorValues == {Undefined, ErrorObj, ErrorLike, Str("oops")}
ItemValues == {Str("a"), Num("1"), Undefined, Cyclic, ErrorObj}
ExtraValues == {Undefined, Str("x"), Cyclic}

RECURSIVE SeqsUpTo(_, _)
SeqsUpTo(S, n) ==
    IF n = 0 THEN {<<>>}
    ELSE SeqsUpTo(S, n - 1) \cup {Append(q, x) : q \in {p \in SeqsUpTo(S, n - 1) : Len(p) = n - 1}, x \in S}

DataValues ==
    {NoData, DataVal(Str("x")), DataVal(Null)} \cup {DataArr(q) : q \in SeqsUpTo(ItemValues, MaxData)}

Events ==
    {Obj(t, e, d, x) : t \in TypeValues, e \in ErrorValues, d \in DataValues, x \in ExtraValues}
    \cup {Prim(Undefined), Prim(Null), Prim(Str("hi"))}

RawTexts ==
    {Garbage, RawNull, RawNumber}
    \cup {RawObj(v, t, c, p) : v \in {"", "1", "2", "2.0", "\"2\"", "null"},
                               t \in {"", "\"command\"", "\"event\""},
                               c \in {"", "\"reload\""}, p \in {"", "[1,2]"}}

Origins ==
    UpgradeOrigins \cup
    { Origin(Localhost19000),
      Origin(<<>>),
      Origin(FilePrefix \o <<"/","/","/","x">>),
      Origin(FilePrefix),
      Origin(<<"f","i","l","e">>),
      Origin(HttpLocalhost),
      Origin(HttpLocalhost \o <<".","e","v","i","l",":","8","0">>),
      Origin(<<"h","t","t","p","s",":","/","/","l","o","c","a","l","h","o","s","t",":","1">>),
      Origin(<<"x">> \o LocalhostPrefix),
      Origin(<<"n","u","l","l">>) }

PureInit ==
    /\ sockets = [c \in Conns |-> NoSocket]
    /\ clients = <<>>
    /\ nextClientId = 0
    /\ sent = [c \in Conns |-> <<>>]
    /\ reported = <<>>
    /\ inbound = <<>>
    /\ relayed = <<>>
    /\ probeIn \in {[NoProbe EXCEPT !.fn = "serializeMessage", !.event = e] : e \in Events}
                   \cup {[NoProbe EXCEPT !.fn = "parseMessage", !.data = d] : d \in RawTexts}
                   \cup {[NoProbe EXCEPT !.fn = "verifyClient", !.origin = o] : o \in Origins}
                   \cup {[NoProbe EXCEPT !.fn = "onmessage", !.data = d] : d \in RawTexts}
    /\ probeOut = NoResult

Apply(fn, result) ==
    /\ probeIn.fn = fn
    /\ ~probeOut.done
    /\ probeOut' = result
    /\ UNCHANGED <<sockets, clients, nextClientId, sent, reported, inbound, relayed,
                   probeIn>>

ApplySerialize ==
    Apply("serializeMessage",
          [NoResult EXCEPT !.done = TRUE, !.serialized = serializeMessage(probeIn.event)])
ApplyParse ==
    Apply("parseMessage", [NoResult EXCEPT !.done = TRUE, !.parsed = parseMessage(probeIn.data)])
ApplyVerify ==
    Apply("verifyClient", [NoResult EXCEPT !.done = TRUE, !.accepted = verifyClient(probeIn.origin)])

ApplyOnMessage ==
    Apply("onmessage", [NoResult EXCEPT !.done = TRUE, !.calls = onmessage(probeIn.data)])

PureNext == ApplySerialize \/ ApplyParse \/ ApplyVerify \/ ApplyOnMessage

PureSpec == PureInit /\ [][PureNext]_vars

(***************************************************************************)
(*                          The claims                                     *)
(***************************************************************************)
\* the ws.send calls made on socket c for the i-th reportEvent call
Writes(c, i) == SelectSeq(sent[c], LAMBDA w : w.ev = i)
\* those of them that went through: what the client receives
Received(c, i) == SelectSeq(sent[c], LAMBDA w : w.ev = i /\ w.ok)

SerializationFailed(i) == serializeMessage(reported[i].event).k # "string"

\* C1, as stated: for every reportEvent call, either every client registered at
\* the call receives the same text exactly once, or serialization failed and no
\* client receives anything.
C1_AllOrNoneReceive ==
    \A i \in DOMAIN reported :
        LET R == reported[i].registry IN
        \/ /\ \A c \in R : Len(Received(c, i)) = 1
           /\ \A c, d \in R : Received(c, i)[1].text = Received(d, i)[1].text
        \/ /\ SerializationFailed(i)
           /\ \A c \in Conns : Received(c, i) = <<>>

\* C1, amended: for every reportEvent call, either the serialized text of the
\* event is written exactly once to every client registered at the call (and
\* to no other socket), or the registry is empty or serialization yields no
\* text, and nothing is written to any client.  What the clients receive of an event is
\* never two different texts.
C1_AllOrNoneWritten ==
    \A i \in DOMAIN reported :
        LET R == reported[i].registry IN
        /\ \/ /\ R # {} /\ ~SerializationFailed(i)
              /\ \A c \in R : Len(Writes(c, i)) = 1
              /\ \A c \in R : Writes(c, i)[1].text = serializeMessage(reported[i].event).text
              /\ \A c \in Conns \ R : Writes(c, i) = <<>>
           \/ /\ R = {} \/ SerializationFailed(i)
              /\ \A c \in Conns : Writes(c, i) = <<>>
        /\ \A c, d \in Conns : \A k \in DOMAIN Received(c, i), l \in DOMAIN Received(d, i) :
              Received(c, i)[k].text = Received(d, i)[l].text

\* C1's case: one event, written to two registered clients, the write to one
\* of them raised and the other received the text
C1_Witness ==
    \E i \in DOMAIN reported : \E c, d \in reported[i].registry :
        /\ c # d
        /\ Len(Writes(c, i)) = 1 /\ Received(c, i) = <<>>
        /\ Len(Received(d, i)) = 1

\* C2: no write made on a socket is for an event reported before the socket
\* was registered; an event reported while the registry was empty is written
\* to no socket.
C2_NoReplay ==
    /\ \A c \in Conns : \A k \in DOMAIN sent[c] : sent[c][k].ev > sockets[c].since
    /\ \A i \in DOMAIN reported :
          reported[i].registry = {} => \A c \in Conns : Writes(c, i) = <<>>

\* C2's case: an event was sent to a client, and another client registered
\* after that call and has been sent nothing
C2_Witness ==
    \E c, d \in Conns :
        /\ Len(Received(d, 1)) = 1
        /\ sockets[c].state = "open" /\ c \in Registered
        /\ sockets[c].since = 1
        /\ sent[c] = <<>>

\* the text does not decode to a message of version PROTOCOL_VERSION
BadVersion(data) ==
    \/ ~data.wf
    \/ data.top # "object"
    \/ data.version \notin {"2", "2.0"}

\* C3: a message that fails to decode, or whose version is not 2, causes no
\* call of messageSocket.broadcast.
C3_BadVersionNeverRelayed ==
    \A i \in DOMAIN inbound :
        BadVersion(inbound[i].data) => \A k \in DOMAIN relayed : relayed[k].msg # i

\* C3's case: a command of version 1 came in on a registered connection, and
\* nothing was relayed
C3_Witness ==
    \E i \in DOMAIN inbound :
        /\ inbound[i].data = RawObj("1", "\"command\"", "\"reload\"", "")
        /\ inbound[i].conn \in Registered
        /\ relayed = <<>>

\* C4: a message of version 2 and type "command" causes exactly one call of
\* messageSocket.broadcast, with the command and the params of the message.
C4_CommandRelayedOnce ==
    \A i \in DOMAIN inbound :
        LET data == inbound[i].data
            calls == SelectSeq(relayed, LAMBDA r : r.msg = i)
        IN  (~BadVersion(data) /\ data.type = "\"command\"") =>
                /\ Len(calls) = 1
                /\ calls[1].command = Decode(data.command)
                /\ calls[1].params = Decode(data.params)

\* C4's case: the command reload came in without params and was relayed
\* once, as broadcast("reload", undefined)
C4_Witness ==
    \E i \in DOMAIN inbound :
        /\ inbound[i].data = RawObj("2", "\"command\"", "\"reload\"", "")
        /\ Len(SelectSeq(relayed, LAMBDA r : r.msg = i)) = 1
        /\ \E k \in DOMAIN relayed :
              /\ relayed[k].msg = i
              /\ relayed[k].command = Str("reload")
              /\ relayed[k].params = Undefined

\* C5: when a write of an event raised, the same text was still written, once,
\* to every client registered at that call.
C5_FailureIsolation ==
    \A i \in DOMAIN reported :
        (\E c \in Conns : \E k \in DOMAIN Writes(c, i) : ~Writes(c, i)[k].ok) =>
            /\ \A d \in reported[i].registry : Len(Writes(d, i)) = 1
            /\ \A c, d \in reported[i].registry : Writes(c, i)[1].text = Writes(d, i)[1].text

\* C5's case: two clients, the write to the one iterated first raised, and
\* the one iterated after it received the text
C5_Witness ==
    \E i \in DOMAIN reported :
        /\ reported[i].registry = {1, 2}
        /\ Len(Writes(1, i)) = 1 /\ Received(1, i) = <<>>
        /\ Len(Received(2, i)) = 1

\* C6, as stated: no reportEvent call throws to the reporter.
C6_ReportEventNeverThrows == \A i \in DOMAIN reported : ~reported[i].threw

\* the probe of PureSpec has applied fn
Applied(fn) == probeIn.fn = fn /\ probeOut.done

\* an event whose error field is an instance of Error
HasError(e) == e.k = "object" /\ e.error.t = "Error"

\* every field of the event but error is one JSON.stringify can encode
OthersEncodable(e) ==
    /\ e.type.t # "cyclic" /\ e.extra.t # "cyclic" /\ e.data.val.t # "cyclic"
    /\ \A i \in DOMAIN e.data.items : e.data.items[i].t # "cyclic"

\* C7, as stated: an event whose error field is an Error always serializes to
\* a text, which carries a rendering of the error as a string.
C7_ErrorEventAlwaysText ==
    (Applied("serializeMessage") /\ HasError(probeIn.event)) =>
        /\ probeOut.serialized.k = "string"
        /\ probeOut.serialized.doc.error.t = "string"

\* C7, amended: for an event whose error field is an Error, serialization
\* never throws; it yields a text, which carries a rendering of the error as a
\* string in place of the error, when every other field of the event can be
\* encoded, and it yields null (Rejected) when one cannot.
C7_ErrorEventNeverThrows ==
    (Applied("serializeMessage") /\ HasError(probeIn.event)) =>
        /\ probeOut.serialized.k \in {"string", "null"}
        /\ (probeOut.serialized.k = "string") = OthersEncodable(probeIn.event)
        /\ probeOut.serialized.k = "string" =>
              /\ probeOut.serialized.doc.error.t = "string"
              /\ probeOut.serialized.doc.error.s = "[Error: boom]"

\* C7's case: a client_log event with an Error and no data array (which the
\* client_log branch would choke on) was serialized to a text
C7_Witness ==
    /\ Applied("serializeMessage")
    /\ probeIn.event = Obj(Str("client_log"), ErrorObj, NoData, Str("x"))
    /\ probeOut.serialized.k = "string"
    /\ probeOut.serialized.text = "{\"type\":\"client_log\",\"error\":\"[Error: boom]\",\"extra\":\"x\"}"

\* a client_log event that has no Error and whose data is an array
IsClientLog(e) ==
    /\ e.k = "object" /\ e.type = Str("client_log") /\ ~HasError(e) /\ e.data.arr

\* C8: the payload of a client_log event holds a data array as long as the
\* event's, with each string of it kept at its place and each other element
\* replaced at its place by a string, and holds the other fields of the event
\* as JSON encodes them.
C8_ClientLogDataMapped ==
    (Applied("serializeMessage") /\ IsClientLog(probeIn.event)
        /\ probeOut.serialized.k = "string") =>
        LET e == probeIn.event
            doc == probeOut.serialized.doc
        IN  /\ doc.data.arr
            /\ Len(doc.data.items) = Len(e.data.items)
            /\ \A i \in DOMAIN e.data.items :
                  /\ doc.data.items[i].t = "string"
                  /\ e.data.items[i].t = "string" => doc.data.items[i] = e.data.items[i]
            /\ doc.type = Str("client_log")
            /\ doc.error = JsonOf(e.error)
            /\ doc.extra = JsonOf(e.extra)

\* C8's case: the data ["a", 1] was serialized to ["a", "1"]
C8_Witness ==
    /\ Applied("serializeMessage")
    /\ probeIn.event = Obj(Str("client_log"), Undefined, DataArr(<<Str("a"), Num("1")>>), Str("x"))
    /\ probeOut.serialized.doc.data.items = <<Str("a"), Str("1")>>
    /\ probeOut.serialized.text = "{\"type\":\"client_log\",\"data\":[\"a\",\"1\"],\"extra\":\"x\"}"

\* C9: a close or error signal of a connection removes the entry of that
\* connection and no other; a signal that comes when the connection is closed
\* already leaves the registry as it is; no handler of a signal throws.
C9_RemoveIdempotent ==
    [][\A c \in Conns :
          (/\ sockets[c].state \in {"open", "closed"}
           /\ sockets'[c].state = "closed"
           /\ sockets'[c] # sockets[c]) =>
              /\ clients' = SelectSeq(clients, LAMBDA e : e.ws # c)
              /\ sockets[c].state = "closed" => clients' = clients
              /\ ~sockets'[c].raised]_vars

\* C9's case: a connection got a second signal while another client was
\* registered, which still is
C9_Witness ==
    \E c, d \in Conns :
        /\ sockets[c].resignalled
        /\ c \notin Registered
        /\ d \in Registered

\* the text begins with the prefix
HasPrefix(text, prefix) == \E n \in 0..Len(text) : SubSeq(text, 1, n) = prefix

\* C10, as stated: an upgrade request is accepted exactly when its Origin
\* header is absent or begins with "http://localhost:" or "file:".
C10_AcceptIffAbsentOrPrefixed ==
    Applied("verifyClient") =>
        (probeOut.accepted <=>
            \/ ~probeIn.origin.set
            \/ HasPrefix(probeIn.origin.text, LocalhostPrefix)
            \/ HasPrefix(probeIn.origin.text, FilePrefix))

\* C10, amended: an upgrade request is accepted exactly when its Origin header
\* is absent or empty, or begins with "http://localhost:" or "file:"; so
\* "http://localhost:19000" and an absent header are accepted and
\* "https://evil.example.com" is rejected.
C10_AcceptIffUnsetOrPrefixed ==
    Applied("verifyClient") =>
        /\ probeOut.accepted <=>
              \/ ~probeIn.origin.set
              \/ probeIn.origin.text = <<>>
              \/ HasPrefix(probeIn.origin.text, LocalhostPrefix)
              \/ HasPrefix(probeIn.origin.text, FilePrefix)
        /\ probeIn.origin = Origin(Localhost19000) => probeOut.accepted
        /\ probeIn.origin = Origin(Evil) => ~probeOut.accepted
        /\ probeIn.origin = NoOrigin => probeOut.accepted

\* C10's case: a request whose Origin header is there and empty was accepted
C10_Witness ==
    /\ Applied("verifyClient")
    /\ probeIn.origin = Origin(<<>>)
    /\ probeOut.accepted

\* a text that decodes to a message of version 2 and type "command"
ValidCommand(data) == ~BadVersion(data) /\ data.type = "\"command\""

\* the calls of messageSocket.broadcast made for the i-th inbound text
CallsFor(i) == SelectSeq(relayed, LAMBDA r : r.msg = i)

\* C11: handling an inbound text, whatever it is (undecodable, of a wrong
\* version, of an unknown type, or a valid command whose broadcast raises),
\* never raises, leaves the registry and every connection as they were (the
\* sender stays registered), writes nothing to any client, and relays the
\* text exactly when it is a valid command, whatever came in before it.
C11_MessageLeavesServerIntact ==
    [][inbound' # inbound =>
          LET i == Len(inbound')
              m == inbound'[i]
          IN  /\ inbound' = Append(inbound, m)
              /\ ~m.threw
              /\ clients' = clients
              /\ sockets' = sockets
              /\ nextClientId' = nextClientId
              /\ m.open => m.conn \in {clients'[k].ws : k \in DOMAIN clients'}
              /\ sent' = sent
              /\ IF ValidCommand(m.data)
                 THEN /\ Len(relayed') = Len(relayed) + 1
                      /\ SubSeq(relayed', 1, Len(relayed)) = relayed
                      /\ relayed'[Len(relayed')].msg = i
                      /\ relayed'[Len(relayed')].command = Decode(m.data.command)
                 ELSE relayed' = relayed
    ]_vars

\* C11's case: on a connection that is still registered a valid command came
\* in whose broadcast raised, and the next valid command on the same
\* connection was relayed all the same
C11_Witness ==
    /\ Len(inbound) = 2
    /\ inbound[1].conn = inbound[2].conn
    /\ inbound[1].conn \in Registered
    /\ ValidCommand(inbound[1].data)
    /\ ValidCommand(inbound[2].data)
    /\ Len(relayed) = 2
    /\ relayed[1].raised
    /\ relayed[2].msg = 2
    /\ ~relayed[2].raised

\* C12: every client in the registry is a connection that has not signalled
\* close or error, under the id it was given; the signal's callback removes
\* the entry itself, so from then on no broadcast writes to that connection.
C12_RegisteredNotSignalled ==
    /\ [](\A k \in DOMAIN clients :
             /\ sockets[clients[k].ws].state = "open"
             /\ sockets[clients[k].ws].clientId = clients[k].id)
    /\ [][\A c \in Conns :
             /\ sockets'[c].state = "closed" => c \notin {clients'[k].ws : k \in DOMAIN clients'}
             /\ sockets[c].state = "closed" => sent'[c] = sent[c]]_vars

\* C12's case: connection 1 signalled before the first event was reported;
\* the event was written to connection 2 and not to connection 1
C12_Witness ==
    /\ sockets[1].state = "closed"
    /\ sockets[1].since = 0
    /\ Len(reported) = 1
    /\ reported[1].registry = {2}
    /\ Len(sent[2]) = 1
    /\ sent[1] = <<>>

\* the connections that were accepted, in the order they were
Accepted == {c \in Conns : sockets[c].state \in {"open", "closed"}}

\* id is the text "client#" followed by the number n
Numbered(id, n) == id = "client#" \o ToString(n)

\* C13: no two entries of the registry have the same id; the ids given out are
\* numbered in strictly increasing order of connection and none is given
\* twice, also not to a connection opened after another has closed; so adding
\* a client adds an entry and overwrites none.
C13_IdsUniqueAndIncreasing ==
    /\ [](/\ \A j, k \in DOMAIN clients : clients[j].id = clients[k].id => j = k
          /\ nextClientId = Cardinality(Accepted)
          /\ \A c \in Accepted : \E n \in 0..(nextClientId - 1) :
                 Numbered(sockets[c].clientId, n)
          /\ \A c, d \in Accepted : c < d =>
                 \E m, n \in 0..(nextClientId - 1) :
                     /\ m < n
                     /\ Numbered(sockets[c].clientId, m)
                     /\ Numbered(sockets[d].clientId, n))
    /\ [][/\ nextClientId' >= nextClientId
          /\ nextClientId' # nextClientId =>
                 /\ Len(clients') = Len(clients) + 1
                 /\ SubSeq(clients', 1, Len(clients)) = clients
                 /\ Numbered(clients'[Len(clients')].id, nextClientId)
                 /\ \A c \in Accepted : sockets[c].clientId # clients'[Len(clients')].id]_vars

\* C13's case: connection 1 was opened and closed before the first event,
\* connection 2 was opened after it, and was given client#1, not client#0
C13_Witness ==
    /\ sockets[1].state = "closed"
    /\ sockets[1].since = 0
    /\ sockets[1].clientId = "client#0"
    /\ Len(reported) = 1
    /\ reported[1].registry = {}
    /\ sockets[2].state = "open"
    /\ sockets[2].since = 1
    /\ sockets[2].clientId = "client#1"
    /\ Len(clients) = 1

\* C14, as stated: for every connection that reached Open, clients.delete of
\* its id runs exactly once over its lifetime, for any sequence of close and
\* error signals.  The handler runs clients.delete on every signal, so the
\* delete has run more than once exactly when a signal came after the first.
C14_RemoveRunsOnce ==
    \A c \in Conns : sockets[c].state = "closed" => ~sockets[c].resignalled

\* C14, amended: for every connection that reached Open its entry is removed
\* from the registry exactly once, on the transition from Open to Closed,
\* whichever signal (close or error) made it; clients.delete of its id runs
\* again on every further signal and removes nothing, and the connection is
\* never registered again.
C14_EntryRemovedOnce ==
    /\ [](\A c \in Conns :
             /\ sockets[c].state = "open" => c \in Registered
             /\ sockets[c].state = "closed" => c \notin Registered)
    /\ [][\A c \in Conns :
             LET before == c \in {clients[k].ws : k \in DOMAIN clients}
                 after == c \in {clients'[k].ws : k \in DOMAIN clients'}
             IN  /\ (before /\ ~after) <=>
                        (sockets[c].state = "open" /\ sockets'[c].state = "closed")
                 /\ sockets[c].state = "closed" =>
                        /\ sockets'[c].state = "closed"
                        /\ ~after
                        /\ sockets'[c] # sockets[c] => clients' = clients]_vars

\* C14's case: connection 1 got a signal and then another one; its entry is
\* gone and the entry of connection 2, which is open, is the only one left
C14_Witness ==
    /\ sockets[1].state = "closed"
    /\ sockets[1].resignalled
    /\ 1 \notin Registered
    /\ sockets[2].state = "open"
    /\ clients = <<[id |-> sockets[2].clientId, ws |-> 2]>>

\* C15: a reportEvent call leaves the registry as it was, also when the
\* event does not encode or writes raise; a client whose write raised stays
\* registered and is written every later event that encodes, until its own
\* close or error signal.
C15_DispatcherKeepsRegistry ==
    /\ [][reported' # reported =>
             /\ clients' = clients
             /\ sockets' = sockets
             /\ nextClientId' = nextClientId]_vars
    /\ [](\A c \in Conns : \A w \in DOMAIN sent[c] :
             (~sent[c][w].ok /\ sockets[c].state = "open") =>
                 /\ c \in Registered
                 /\ \A i \in DOMAIN reported : i > sent[c][w].ev =>
                        /\ c \in reported[i].registry
                        /\ ~SerializationFailed(i) => Len(Writes(c, i)) = 1)

\* C15's case: the write of the first event to a client raised; the client
\* is still registered and was written the second event
C15_Witness ==
    \E c \in Conns :
        /\ Len(reported) = 2
        /\ Len(Writes(c, 1)) = 1
        /\ ~Writes(c, 1)[1].ok
        /\ c \in Registered
        /\ Len(Writes(c, 2)) = 1
        /\ Writes(c, 2)[1].ok

\* an Origin header the access filter lets through: absent, empty, or
\* beginning with "http://localhost:" or "file:"
OriginAllowed(origin) ==
    \/ ~origin.set
    \/ origin.text = <<>>
    \/ HasPrefix(origin.text, LocalhostPrefix)
    \/ HasPrefix(origin.text, FilePrefix)

\* the upgrade requests made so far whose origin the filter rejects
Rejected == {c \in Conns : sockets[c].state # "none" /\ ~OriginAllowed(sockets[c].origin)}

\* C16: an upgrade request the access filter rejects never becomes an open
\* connection: it gets no entry in the registry and no client id, the counter
\* of ids is not advanced for it, no broadcast sees it or writes to it, and
\* no message of it is handled, so none is relayed.
C16_RejectedNeverOpen ==
    /\ [](/\ \A c \in Rejected :
                /\ sockets[c].state = "refused"
                /\ sockets[c].clientId = ""
                /\ c \notin Registered
                /\ sent[c] = <<>>
                /\ \A i \in DOMAIN reported : c \notin reported[i].registry
                /\ \A i \in DOMAIN inbound : inbound[i].conn # c
                /\ \A k \in DOMAIN relayed : inbound[relayed[k].msg].conn # c
          /\ \A c \in Conns : sockets[c].state = "refused" => c \in Rejected
          /\ nextClientId = Cardinality({c \in Conns : sockets[c].state # "none"} \ Rejected))
    /\ [][\A c \in Conns :
             (sockets[c].state = "none" /\ sockets'[c].state = "refused") =>
                 /\ nextClientId' = nextClientId
                 /\ clients' = clients]_vars

\* C16's case: the request of connection 1 came from https://evil.example.com
\* and was refused; connection 2, accepted after it, got client#0 and was
\* written the event reported then, and connection 1 was written nothing
C16_Witness ==
    /\ sockets[1].state = "refused"
    /\ sockets[1].origin = Origin(Evil)
    /\ sockets[2].state = "open"
    /\ sockets[2].clientId = "client#0"
    /\ nextClientId = 1
    /\ Len(reported) = 1
    /\ reported[1].registry = {2}
    /\ Len(sent[2]) = 1
    /\ sent[1] = <<>>

\* C17: a text that decodes to a message of version 2 whose type is not
\* "command", or is missing, makes the handler call messageSocket.broadcast
\* not at all, whatever its command and params are.
C17_NonCommandDiscarded ==
    Applied("onmessage") =>
        ((~BadVersion(probeIn.data) /\ probeIn.data.type # "\"command\"") =>
            probeOut.calls = <<>>)

\* C17's case: a message of version 2 without a type, with the command reload
\* and params, was handled and nothing was relayed
C17_Witness ==
    /\ Applied("onmessage")
    /\ probeIn.data = RawObj("2", "", "\"reload\"", "[1,2]")
    /\ probeOut.calls = <<>>

\* C18: commands are relayed only for open connections: a text that comes in
\* on a connection after its close or error signal, when its entry is gone
\* from the registry, makes no call of messageSocket.broadcast, even when it
\* is a valid command of version 2.
C18_NoRelayAfterSignal ==
    \A k \in DOMAIN relayed : inbound[relayed[k].msg].open

\* C19: what is written to a client is, in the order of the reportEvent calls,
\* the text of every event that encodes and was reported while the client was
\* registered: none twice, none left out, none out of order, whatever
\* connections, closes and errors come between the calls.  Each call adds to
\* what was written to a client before it one write of the text of its event,
\* when the event encodes and the client is registered, and nothing
\* otherwise; no other callback writes.  A client whose writes all go through
\* receives exactly that sequence.
C19_PerClientOrder ==
    /\ [](\A c \in Conns : \A k \in DOMAIN sent[c] :
             /\ sent[c][k].ev \in DOMAIN reported
             /\ c \in reported[sent[c][k].ev].registry
             /\ \A j \in DOMAIN sent[c] : j < k => sent[c][j].ev < sent[c][k].ev)
    /\ [][IF reported' # reported
          THEN LET n == Len(reported')
                   encoded == serializeMessage(reported'[n].event)
               IN  \A c \in Conns :
                       IF c \in reported'[n].registry /\ encoded.k = "string"
                       THEN /\ Len(sent'[c]) = Len(sent[c]) + 1
                            /\ SubSeq(sent'[c], 1, Len(sent[c])) = sent[c]
                            /\ sent'[c][Len(sent'[c])].ev = n
                            /\ sent'[c][Len(sent'[c])].text = encoded.text
                       ELSE sent'[c] = sent[c]
          ELSE sent' = sent]_vars

\* C19's case: the same event was reported twice and another connection was
\* opened between the two calls; a client registered throughout was written
\* the text twice, both writes went through
C19_Witness ==
    \E c, d \in Conns :
        /\ c # d
        /\ Len(reported) = 2
        /\ reported[1].event = Obj(Str("foo"), Undefined, NoData, Undefined)
        /\ reported[2].event = reported[1].event
        /\ sockets[d].since = 1
        /\ sockets[d].state = "open"
        /\ sent[c] = <<Write(1, "{\"type\":\"foo\"}", TRUE), Write(2, "{\"type\":\"foo\"}", TRUE)>>
        /\ sent[d] = <<Write(2, "{\"type\":\"foo\"}", TRUE)>>

\* the connections that were accepted and have not signalled close or error
Live == {c \in Conns : sockets[c].state = "open"}

\* C20: the registry holds exactly the connections that were accepted and
\* have not signalled close or error, each under one id, so its size is their
\* number; once every accepted connection has signalled it is empty, and a
\* reportEvent call then writes nothing and does not throw.
C20_RegistryCompleteAndLeakFree ==
    /\ [](/\ Registered = Live
          /\ Len(clients) = Cardinality(Live)
          /\ \A c \in Live :
                 Cardinality({k \in DOMAIN clients : clients[k].ws = c}) = 1
          /\ Live = {} => clients = <<>>)
    /\ [][(reported' # reported /\ Live = {}) =>
             /\ sent' = sent
             /\ clients' = <<>>
             /\ ~reported'[Len(reported')].threw]_vars

\* C20's case: two connections were accepted and both had signalled when the
\* event was reported: the registry was empty and nothing was written
C20_Witness ==
    /\ \A c \in {1, 2} : sockets[c].state = "closed" /\ sockets[c].since = 0
    /\ clients = <<>>
    /\ Len(reported) = 1
    /\ reported[1].registry = {}
    /\ \A c \in Conns : sent[c] = <<>>

====
